---- MODULE Spec2Model ----
(***************************************************************************)
(* StaticStringBase<T, max> / NarrowString<max> of util/StaticString.hxx:  *)
(* a fixed-capacity, terminator-delimited text buffer.                     *)
(*                                                                         *)
(* A buffer is a function from the indices 0 .. capacity-1 to element      *)
(* values (naturals; the char values 0 .. 255).  Every member function is  *)
(* an operator from the buffer (and its arguments) to the outcome of the   *)
(* call: the store afterwards, the highest index the call wrote, and what  *)
(* it returned.  A write to an index outside the store is recorded in the  *)
(* outcome's `top` and changes no element.                                 *)
(*                                                                         *)
(* Text handed to the buffer (views, sources, rendered output) holds no    *)
(* terminator element: an embedded terminator ends the content early and   *)
(* is outside what the operations are documented for.                      *)
(***************************************************************************)
EXTENDS Integers, Sequences, FiniteSets, TLC

\* ------------------------------------------------------------- bounds
\* largest capacity (template parameter max) explored
MaxCap == 3
\* longest view built freely from Alphabet
MaxLen == 1
\* most code points in a UTF-8 source
MaxPoints == 2

\* ---------------------------------------------------------- constants
SENTINEL == 0

Capacities == 2..MaxCap

\* 'x', a continuation byte and the lead byte of a two-byte sequence
Alphabet == {120, 169, 195}

\* values an uninitialised or left-over element may hold
Junk == {SENTINEL, 120}

Min2(a, b) == IF a < b THEN a ELSE b

Max2(a, b) == IF a < b THEN b ELSE a

SetMin(S) == CHOOSE x \in S : \A y \in S : x <= y

SetMax(S) == CHOOSE x \in S : \A y \in S : y <= x

BoundedSeq(S, n) == UNION {[1..k -> S] : k \in 0..n}

Prefix(s, n) == SubSeq(s, 1, n)

IsPrefix(p, s) == Len(p) <= Len(s) /\ Prefix(s, Len(p)) = p

\* ------------------------------------------------ external primitives
\* ASCII.hxx: IsASCII
IsASCII(ch) == ch < 128

\* UTF8.cpp: a continuation byte 10xxxxxx
IsContinuation(ch) == ch >= 128 /\ ch < 192

\* UTF8.cpp: the length of the sequence a lead byte announces, 0 for a byte
\* that cannot start a sequence
SequenceLengthUTF8(ch) ==
    IF ch < 128 THEN 1
    ELSE IF ch < 192 THEN 0
    ELSE IF ch < 224 THEN 2
    ELSE IF ch < 240 THEN 3
    ELSE IF ch < 248 THEN 4
    ELSE 0

RECURSIVE ValidateUTF8(_)
\* UTF8.cpp: ValidateUTF8, on a null-delimited source given as its bytes
ValidateUTF8(s) ==
    IF s = <<>> THEN TRUE
    ELSE LET n == SequenceLengthUTF8(s[1])
         IN  /\ n > 0
             /\ Len(s) >= n
             /\ \A i \in 2..n : IsContinuation(s[i])
             /\ ValidateUTF8(SubSeq(s, n + 1, Len(s)))

\* the number of bytes at the end of c that start a multi-byte sequence
\* and do not complete it (0 when c does not end inside a sequence)
IncompleteTail(c) ==
    LET n == Len(c)
        starts == {i \in 1..n : ~IsContinuation(c[i])}
    IN  IF starts = {} THEN 0
        ELSE LET p == SetMax(starts)
                 want == SequenceLengthUTF8(c[p])
             IN  IF want > 1 /\ n - p + 1 < want THEN n - p + 1 ELSE 0

\* ------------------------------------------------------ the store
\* BasicStringBuffer::capacity()
capacity(buf) == Cardinality(DOMAIN buf)

\* StringAPI.hxx: StringLength(p), scanning from index off; when the store
\* holds no terminator from there on, the scan leaves the store
StringLength(buf, off) ==
    LET zeros == {i \in DOMAIN buf : i >= off /\ buf[i] = SENTINEL}
    IN  IF zeros = {} THEN capacity(buf) - off ELSE SetMin(zeros) - off

length(buf) == StringLength(buf, 0)

full(buf) == length(buf) >= capacity(buf) - 1

\* operator string_view(): the elements before the first terminator
Content(buf) == [i \in 1..length(buf) |-> buf[i - 1]]

\* the elements bytes stored from index off on; top is the highest index
\* written, -1 when nothing is written
Write(buf, off, bytes) ==
    [mem |-> [i \in DOMAIN buf |->
                 IF off <= i /\ i < off + Len(bytes) THEN bytes[i - off + 1]
                 ELSE buf[i]],
     top |-> IF bytes = <<>> THEN -1 ELSE off + Len(bytes) - 1]

\* StringUtil: CopyString(dest, dest_size, src): at most dest_size - 1
\* elements of src, then the terminator
CopyString(buf, off, dest_size, src) ==
    LET n == IF Len(src) >= dest_size THEN dest_size - 1 ELSE Len(src)
    IN  Write(buf, off, Prefix(src, n) \o <<SENTINEL>>)

\* ASCII.cxx: CopyASCII(dest, dest_size, src, src_end): the ASCII elements
\* of src, at most dest_size of them, no terminator; end is where it stopped
CopyASCIIBounded(buf, off, dest_size, src) ==
    LET kept == SelectSeq(src, IsASCII)
        n == Min2(Len(kept), Max2(dest_size, 0))
        w == Write(buf, off, Prefix(kept, n))
    IN  [mem |-> w.mem, top |-> w.top, end |-> off + n]

\* ASCII.cxx: CopyASCII(dest, src): the ASCII elements of the null-delimited
\* src, then the terminator
CopyASCII(buf, off, src) ==
    Write(buf, off, SelectSeq(src, IsASCII) \o <<SENTINEL>>)

\* UTF8.cpp: CropIncompleteUTF8(p): a trailing incomplete multi-byte
\* sequence is cut off by a terminator written at its lead byte
CropIncompleteUTF8(buf) ==
    LET c == Content(buf)
        k == IncompleteTail(c)
    IN  IF k = 0 THEN [mem |-> buf, top |-> -1]
        ELSE Write(buf, Len(c) - k, <<SENTINEL>>)

\* CopyUTF8(char *dest, size_t dest_size, const char *src): a malformed
\* source is refused, and the store is then left terminated, bounded and
\* not inside a sequence (emptied, or untouched when it already was so);
\* a well-formed source is copied, truncated and cropped
CopyUTF8(buf, dest_size, src) ==
    IF ~ValidateUTF8(src)
    THEN {[mem |-> Write(buf, 0, <<SENTINEL>>).mem, top |-> 0, ok |-> FALSE]}
         \cup (IF IncompleteTail(Content(buf)) = 0
               THEN {[mem |-> buf, top |-> -1, ok |-> FALSE]}
               ELSE {})
    ELSE LET w == CopyString(buf, 0, dest_size, src)
             c == CropIncompleteUTF8(w.mem)
         IN  {[mem |-> c.mem, top |-> Max2(w.top, c.top), ok |-> TRUE]}

RECURSIVE StringIsEqualFrom(_, _, _)
\* the element-wise scan of StringIsEqual from index i on: it stops at the
\* first difference or at a terminator both strings hold
StringIsEqualFrom(a, b, i) ==
    IF i \notin DOMAIN a \/ i \notin DOMAIN b THEN FALSE
    ELSE IF a[i] # b[i] THEN FALSE
    ELSE IF a[i] = SENTINEL THEN TRUE
    ELSE StringIsEqualFrom(a, b, i + 1)

\* StringAPI.hxx: StringIsEqual on two null-delimited strings
StringIsEqual(a, b) == StringIsEqualFrom(a, b, 0)

\* a formatting call: the directive and its argument
FormatD(n) == [conv |-> "d", n |-> n, s |-> <<>>]

FormatS(s) == [conv |-> "s", n |-> 0, s |-> s]

\* a template the primitive rejects after producing s
FormatBad(s) == [conv |-> "bad", n |-> 0, s |-> s]

RECURSIVE DecDigits(_)
\* "%d": the decimal digits of n, most significant first, '-' for n < 0
DecDigits(n) ==
    IF n < 0 THEN <<45>> \o DecDigits(-n)
    ELSE IF n < 10 THEN <<48 + n>>
    ELSE DecDigits(n \div 10) \o <<48 + (n % 10)>>

\* the text the template produces
Render(req) == IF req.conv = "d" THEN DecDigits(req.n) ELSE req.s

\* StringFormat.hpp: StringFormat(buffer, size, fmt, args...) (snprintf):
\* at most size - 1 elements of the text and the terminator are written
\* and the full length of the text is returned; on an error the result is
\* negative and the buffer is untouched or holds a terminated part
StringFormat(buf, off, size, req) ==
    LET text == Render(req)
        n == Min2(Len(text), size - 1)
        w == IF size <= 0 THEN [mem |-> buf, top |-> -1]
             ELSE Write(buf, off, Prefix(text, n) \o <<SENTINEL>>)
    IN  IF req.conv = "bad"
        THEN {[mem |-> buf, top |-> -1, rc |-> -1],
              [mem |-> w.mem, top |-> w.top, rc |-> -1]}
        ELSE {[mem |-> w.mem, top |-> w.top, rc |-> Len(text)]}

\* a view with no data (std::basic_string_view{})
NullView == [data |-> -1, size |-> 0]

\* what a call leaves: the store, the highest index written, the boolean
\* returned (TRUE for void), the primitive's result and the view returned
Outcome(w, r, c, v) ==
    [mem |-> w.mem, top |-> w.top, ret |-> r, rc |-> c, view |-> v]

Void(w) == Outcome(w, TRUE, 0, NullView)

\* ------------------------------------------------ member functions
\* assign with the terminator slot subtracted twice
assign_OffByOne(buf, new_value) ==
    Void(CopyString(buf, 0, capacity(buf) - 1, new_value))

assign(buf, new_value) ==
    Void(CopyString(buf, 0, capacity(buf), new_value))

\* append that copies to the start of the store
append_FromStart(buf, new_value) ==
    Void(CopyString(buf, 0, capacity(buf), new_value))

append(buf, new_value) ==
    LET len == length(buf)
    IN  Void(CopyString(buf, len, capacity(buf) - len, new_value))

\* push_back that tests the length against capacity()
push_back_OffByOne(buf, ch) ==
    LET l == length(buf)
    IN  IF l >= capacity(buf)
        THEN Outcome([mem |-> buf, top |-> -1], FALSE, 0, NullView)
        ELSE Outcome(Write(buf, l, <<ch, SENTINEL>>), TRUE, 0, NullView)

push_back(buf, ch) ==
    LET l == length(buf)
    IN  IF l >= capacity(buf) - 1
        THEN Outcome([mem |-> buf, top |-> -1], FALSE, 0, NullView)
        ELSE Outcome(Write(buf, l, <<ch, SENTINEL>>), TRUE, 0, NullView)

Truncate(buf, new_length) ==
    Void(Write(buf, new_length, <<SENTINEL>>))

SetASCII(buf, src) ==
    LET c == CopyASCIIBounded(buf, 0, capacity(buf) - 1, src)
        w == Write(c.mem, c.end, <<SENTINEL>>)
    IN  Void([mem |-> w.mem, top |-> Max2(c.top, w.top)])

\* CleanASCII through the bounded overload, which writes no terminator
CleanASCII_NoTerminator(buf) ==
    Void(CopyASCIIBounded(buf, 0, capacity(buf) - 1, Content(buf)))

CleanASCII(buf) ==
    Void(CopyASCII(buf, 0, Content(buf)))

\* SetUTF8 that hands over one element more than the store has
SetUTF8_WrongSize(buf, src) ==
    {Outcome(o, o.ok, 0, NullView) :
        o \in CopyUTF8(buf, capacity(buf) + 1, src)}

SetUTF8(buf, src) ==
    {Outcome(o, o.ok, 0, NullView) : o \in CopyUTF8(buf, capacity(buf), src)}

\* bool equals(const_pointer other)
equals(buf, value) == StringIsEqual(buf, value)

\* operator== that compares the two stores as wholes
OperatorEq_WholeStore(buf, b2) == buf = b2

\* operator==(const StaticStringBase<T, other_max> &)
OperatorEq(buf, b2) == equals(buf, b2)

\* operator!=(const StaticStringBase<T, other_max> &)
OperatorNe(buf, b2) == ~equals(buf, b2)

\* Format without the truncated branch
Format_NoClamp(buf, req) ==
    {Outcome(o, TRUE, o.rc,
             IF o.rc < 0 THEN NullView ELSE [data |-> 0, size |-> o.rc]) :
        o \in StringFormat(buf, 0, capacity(buf), req)}

Format(buf, req) ==
    {Outcome(o, TRUE, o.rc,
             IF o.rc < 0 THEN NullView
             ELSE [data |-> 0,
                   size |-> IF o.rc >= capacity(buf) THEN capacity(buf) - 1
                            ELSE o.rc]) :
        o \in StringFormat(buf, 0, capacity(buf), req)}

\* AppendFormat that gives the whole capacity as the room left
AppendFormat_FullSize(buf, req) ==
    LET l == length(buf)
    IN  {Outcome(o, TRUE, o.rc, NullView) :
            o \in StringFormat(buf, l, capacity(buf), req)}

\* AppendFormat that subtracts the terminator slot from the room left
AppendFormat_OffByOne(buf, req) ==
    LET l == length(buf)
    IN  {Outcome(o, TRUE, o.rc, NullView) :
            o \in StringFormat(buf, l, capacity(buf) - l - 1, req)}

AppendFormat(buf, req) ==
    LET l == length(buf)
    IN  {Outcome(o, TRUE, o.rc, NullView) :
            o \in StringFormat(buf, l, capacity(buf) - l, req)}

\* CropIncompleteUTF8 that does nothing, as for wide elements
NarrowCrop_NoOp(buf) == Void([mem |-> buf, top |-> -1])

\* NarrowString::CropIncompleteUTF8
NarrowCropIncompleteUTF8(buf) == Void(CropIncompleteUTF8(buf))

\* explicit StaticStringBase(string_view value), on a store never written
StaticStringBase(raw, value) == assign(raw, value)

\* ------------------------------------------------------------ state
VARIABLES
    store,   \* the buffer
    hi,      \* highest index the last call wrote (-1: none)
    op,      \* the last call
    arg,     \* its argument, as a sequence
    ret,     \* the boolean it returned
    rc,      \* the result of the rendering primitive it used
    view,    \* the view it returned
    other    \* a second buffer, for comparisons

vars == <<store, hi, op, arg, ret, rc, view, other>>

cap == capacity(store)

\* a default-constructed buffer made empty: terminator at index 0, the
\* other elements never written
EmptyBuffers(n) == {b \in [0..(n - 1) -> Junk] : b[0] = SENTINEL}

\* the code points 'x', U+00E9 and a three-byte one
CodePoints == {<<120>>, <<195, 169>>, <<226, 169, 169>>}

RECURSIVE Texts(_)
\* the UTF-8 encodings of at most n code points
Texts(n) ==
    IF n = 0 THEN {<<>>}
    ELSE Texts(n - 1) \cup {t \o p : t \in Texts(n - 1), p \in CodePoints}

\* plain ASCII of length n: "xyyxyy..."
PlainASCII(n) == [i \in 1..n |-> IF i % 3 = 1 THEN 120 ELSE 121]

\* views longer than every capacity by 5
LongViews == {PlainASCII(n + 5) : n \in Capacities}

Views == BoundedSeq(Alphabet, MaxLen) \cup Texts(MaxPoints) \cup LongViews

\* formatting calls
Requests ==
    {FormatD(7), FormatD(123)}
        \cup {FormatS(s) : s \in Texts(1) \cup LongViews}
        \cup {FormatBad(<<>>), FormatBad(<<120, 121>>)}

Init ==
    /\ store \in UNION {EmptyBuffers(n) : n \in Capacities}
    /\ hi = -1
    /\ op = "new"
    /\ arg = <<>>
    /\ ret = TRUE
    /\ rc = 0
    /\ view = NullView
    /\ other = [i \in 0..0 |-> SENTINEL]

Did(name, a, o) ==
    /\ store' = o.mem
    /\ hi' = o.top
    /\ op' = name
    /\ arg' = a
    /\ ret' = o.ret
    /\ rc' = o.rc
    /\ view' = o.view
    /\ UNCHANGED other

CallAssign == \E v \in Views : Did("assign", v, assign(store, v))

CallAppend == \E v \in Views : Did("append", v, append(store, v))

CallPushBack == \E ch \in Alphabet : Did("push_back", <<ch>>, push_back(store, ch))

CallTruncate ==
    \E n \in 0..length(store) : Did("Truncate", <<n>>, Truncate(store, n))

CallSetASCII == \E v \in Views : Did("SetASCII", v, SetASCII(store, v))

\* recorded as the argument: the content the call found
CallCleanASCII == Did("CleanASCII", Content(store), CleanASCII(store))

CallSetUTF8 ==
    \E v \in Views : \E o \in SetUTF8(store, v) : Did("SetUTF8", v, o)

CallFormat ==
    \E q \in Requests : \E o \in Format(store, q) : Did("Format", Render(q), o)

CallAppendFormat ==
    \E q \in Requests : \E o \in AppendFormat(store, q) :
        Did("AppendFormat", Render(q), o)

\* the argument of the call before is kept: what was assigned is still known
CallCrop ==
    Did(IF op = "assign" THEN "assign+Crop" ELSE "Crop", arg,
        NarrowCropIncompleteUTF8(store))

CallConstruct ==
    \E v \in Views : \E j \in Junk :
        LET raw == [i \in DOMAIN store |-> j] IN
        Did("construct", v, StaticStringBase(raw, v))

Next ==
    \/ CallConstruct
    \/ CallAssign
    \/ CallAppend
    \/ CallPushBack
    \/ CallTruncate
    \/ CallSetASCII
    \/ CallCleanASCII
    \/ CallSetUTF8
    \/ CallFormat
    \/ CallAppendFormat
    \/ CallCrop

Spec == Init /\ [][Next]_vars

\* ------------------------------------------- two buffers compared
DidOther(name, a, o) ==
    /\ other' = o.mem
    /\ op' = name
    /\ arg' = a
    /\ UNCHANGED <<store, hi, ret, rc, view>>

CallOtherAssign ==
    \E v \in Views : DidOther("other.assign", v, assign(other, v))

CallOtherTruncate ==
    \E n \in 0..length(other) :
        DidOther("other.Truncate", <<n>>, Truncate(other, n))

Compared(name, r) ==
    /\ op' = name
    /\ ret' = r
    /\ arg' = <<>>
    /\ UNCHANGED <<store, hi, rc, view, other>>

CallOperatorEq == Compared("operator==", OperatorEq(store, other))

CallOperatorNe == Compared("operator!=", OperatorNe(store, other))

InitEq ==
    /\ store \in UNION {EmptyBuffers(n) : n \in Capacities}
    /\ other \in UNION {EmptyBuffers(n) : n \in Capacities}
    /\ hi = -1
    /\ op = "new"
    /\ arg = <<>>
    /\ ret = TRUE
    /\ rc = 0
    /\ view = NullView

NextEq ==
    \/ CallAssign
    \/ CallTruncate
    \/ CallOtherAssign
    \/ CallOtherTruncate
    \/ CallOperatorEq
    \/ CallOperatorNe

SpecEq == InitEq /\ [][NextEq]_vars

\* ------------------------------------- a buffer of capacity 4, formatted
InitCap4 ==
    /\ store \in EmptyBuffers(4)
    /\ hi = -1
    /\ op = "new"
    /\ arg = <<>>
    /\ ret = TRUE
    /\ rc = 0
    /\ view = NullView
    /\ other = [i \in 0..0 |-> SENTINEL]

NextCap4 ==
    \/ CallAssign
    \/ CallPushBack
    \/ CallTruncate
    \/ CallFormat
    \/ CallAppendFormat

SpecCap4 == InitCap4 /\ [][NextCap4]_vars

\* ----------------------------------------------------------- claims

\* C1 (bound invariant): after every call of a mutating operation on a
\* buffer that started empty, 0 <= length() <= capacity - 1, the element at
\* index length() is the terminator, and the call wrote no index greater
\* than capacity - 1.
BoundInvariant ==
    /\ 0 <= length(store)
    /\ length(store) <= cap - 1
    /\ store[length(store)] = SENTINEL
    /\ hi <= cap - 1

\* a formatted append that was cut at the last element of the store
BoundWitness ==
    /\ op = "AppendFormat"
    /\ Len(arg) > 1
    /\ length(store) = cap - 1
    /\ hi = cap - 1

AppendFormatBoundaryAsClaimed ==
    [][(/\ cap = 4
        /\ Content(store) = <<120>>
        /\ op' = "AppendFormat"
        /\ arg' = DecDigits(123))
       => Content(store') = <<120, 49>>]_vars

\* C3 as amended: on a buffer of capacity 4 holding "x",
\* AppendFormat("%d", 123) leaves "x12": two digits fit before the reserved
\* terminator slot, and the terminator is at index 3.
AppendFormatBoundary ==
    [][(/\ cap = 4
        /\ Content(store) = <<120>>
        /\ op' = "AppendFormat"
        /\ arg' = DecDigits(123))
       => /\ Content(store') = <<120, 49, 50>>
          /\ store'[3] = SENTINEL
          /\ hi' = 3]_vars

\* "%d" of 123 appended to a capacity-4 buffer, leaving "x12"
AppendFormatWitness ==
    /\ cap = 4
    /\ op = "AppendFormat"
    /\ arg = <<49, 50, 51>>
    /\ Content(store) = <<120, 49, 50>>

\* C4 (truncation correctness): assign, and construction from a view, of
\* an input of length L leaves exactly its first min(L, capacity - 1)
\* elements as content, with the terminator at index min(L, capacity - 1).
AssignTruncation ==
    op \in {"assign", "construct"} =>
        LET n == Min2(Len(arg), cap - 1)
        IN  /\ length(store) = n
            /\ Content(store) = Prefix(arg, n)
            /\ store[n] = SENTINEL

\* a plain-ASCII input of length capacity + 5 assigned
AssignWitness ==
    /\ op = "assign"
    /\ Len(arg) = cap + 5
    /\ \A i \in 1..Len(arg) : IsASCII(arg[i])
    /\ length(store) = cap - 1

\* C5 (Format result view): when the primitive returns r >= 0, Format
\* returns the view at offset 0 of length min(r, capacity - 1), which is
\* the content after the call (the rendered text cut to that length); when
\* the primitive returns a negative result, Format returns the empty view
\* and the store is bounded and terminated.
FormatResultView ==
    op = "Format" =>
        IF rc >= 0
        THEN /\ view.data = 0
             /\ view.size = Min2(rc, cap - 1)
             /\ view.size < cap
             /\ view.size = length(store)
             /\ Content(store) = Prefix(arg, view.size)
        ELSE /\ view = NullView
             /\ length(store) <= cap - 1
             /\ store[length(store)] = SENTINEL

\* a Format whose text did not fit
FormatWitness ==
    /\ op = "Format"
    /\ rc >= cap
    /\ view.size = cap - 1

\* C6 (UTF-8 truncation safety): when a well-formed UTF-8 input is assigned
\* and the cut at capacity - 1 bytes falls inside a multi-byte sequence,
\* CropIncompleteUTF8 leaves content that is well-formed UTF-8 and a strict
\* prefix of the input, shorter than the truncated content, with the
\* terminator written at the new length.
UTF8TruncationSafety ==
    [][(/\ op = "assign"
        /\ op' = "assign+Crop"
        /\ ValidateUTF8(arg)
        /\ Len(arg) > cap - 1
        /\ IncompleteTail(Prefix(arg, cap - 1)) > 0)
       => LET c == Content(store')
          IN  /\ ValidateUTF8(c)
              /\ IsPrefix(c, arg)
              /\ Len(c) < Len(arg)
              /\ Len(c) < cap - 1
              /\ store'[Len(c)] = SENTINEL
              /\ hi' = Len(c)]_vars

\* a cut inside a sequence cropped, with content left
UTF8TruncationWitness ==
    /\ op = "assign+Crop"
    /\ ValidateUTF8(arg)
    /\ Len(arg) > cap - 1
    /\ IncompleteTail(Prefix(arg, cap - 1)) > 0
    /\ Content(store) # <<>>

ContentOnlyEquality ==
    /\ op = "operator==" => (ret = (Content(store) = Content(other)))
    /\ op = "operator!=" => (ret = (Content(store) # Content(other)))

\* equal non-empty contents in buffers of different capacities, one of them
\* with a left-over element after its terminator
EqualityWitness ==
    /\ op = "operator=="
    /\ ret = TRUE
    /\ capacity(store) # capacity(other)
    /\ Content(store) # <<>>
    /\ \E i \in DOMAIN other : i > length(other) /\ other[i] # SENTINEL

\* C9 (CleanASCII): CleanASCII leaves the elements of the old content that
\* are below 128, in order and from index 0 on, with the terminator at the
\* new length, which is at most the old one; a second CleanASCII changes
\* nothing.
CleanASCIIFilter ==
    [][op' = "CleanASCII" =>
        /\ Content(store') = SelectSeq(Content(store), IsASCII)
        /\ length(store') <= length(store)
        /\ store'[length(store')] = SENTINEL
        /\ CleanASCII(store').mem = store']_vars

\* content left after non-ASCII elements of the old content were dropped
CleanASCIIWitness ==
    /\ op = "CleanASCII"
    /\ length(store) >= 1
    /\ Len(arg) > length(store)
    /\ \E i \in 1..Len(arg) : ~IsASCII(arg[i])

\* C10 (append keeps the content): append(v) on content c of length len
\* leaves c followed by the first min(|v|, capacity - 1 - len) elements of
\* v and the terminator; the elements at [0, len) are not modified, and a
\* full buffer keeps its content.
AppendPreserves ==
    [][op' = "append" =>
        LET len == length(store)
            n == Min2(Len(arg'), cap - 1 - len)
        IN  /\ Content(store') = Content(store) \o Prefix(arg', n)
            /\ store'[len + n] = SENTINEL
            /\ \A i \in 0..(len - 1) : store'[i] = store[i]
            /\ len = cap - 1 => Content(store') = Content(store)]_vars

\* an append that filled the buffer to its last element
AppendWitness ==
    /\ op = "append"
    /\ arg # <<>>
    /\ length(store) = cap - 1
    /\ hi = cap - 1

====
